---------------------------- MODULE Spec2Model ----------------------------
(***************************************************************************)
(* Model of csrc/verilator-main.cpp: the Verilator test-bench driver       *)
(* (main) and the plusarg_value hook.                                      *)
(*                                                                         *)
(* main is a sequential program; pc is its position.  The generated model  *)
(* (VTestDriver) is a black box: the only thing the driver observes of it  *)
(* is Verilated::gotFinish(), which the model may set during eval().       *)
(* Variables whose names start with "eval", and the counters, record what  *)
(* the driver did so that properties can be stated over them.              *)
(***************************************************************************)
EXTENDS Integers, Sequences, FiniteSets, TLC

VARIABLES
    cmdline,       \* the +name=value run-time arguments: name -> value or Absent
    heartbeatArg,  \* whether +heartbeat is on the command line
    pc,            \* position of main
    exitCode,      \* status passed to exit(), NoExit while running
    top,           \* the VTestDriver instance: none, live, finalized, destroyed
    tfp,           \* the VerilatedVcdC trace: null, open, closed
    reset,         \* top->reset
    clock,         \* top->clock
    heartbeat,     \* the local heartbeat (line 72)
    main_time,     \* the simulated-time counter
    gotFinish,     \* Verilated::gotFinish()
    evalCount,     \* number of top->eval() calls made
    evalTime,      \* main_time at the last eval (what sc_time_stamp returned)
    evalClock,     \* top->clock at the last eval
    prevEvalClock, \* top->clock at the eval before the last
    evalReset,     \* top->reset at the last eval
    evalHb,        \* whether a heartbeat line was printed in the last eval's iteration
    hbLine,        \* whether the current iteration printed a heartbeat line
    hbCount,       \* number of heartbeat lines printed
    deassertCount, \* number of "Deasserting 'reset'" lines printed
    dumpCount,     \* number of tfp->dump calls
    lastDump,      \* timestamp of the last tfp->dump call
    finalCount,    \* number of top->final() calls
    finishEvals,   \* evalCount when the model signalled finish
    covWritten,    \* whether VerilatedCov::write ran
    cpuLine,       \* the CPU-time line: none, valid, garbage
    buffer,        \* plusarg_value: the C string held in the static buffer
    written,       \* plusarg_value: bytes the last strcpy wrote (NUL included)
    returned,      \* plusarg_value: the string the last call's caller reads
    crashed,       \* plusarg_value: the out-of-bounds write faulted
    query          \* plusarg_value: the plusarg last asked for

vars == <<cmdline, heartbeatArg, pc, exitCode, top, tfp, reset, clock,
          heartbeat, main_time, gotFinish, evalCount, evalTime, evalClock,
          prevEvalClock, evalReset, evalHb, hbLine, hbCount, deassertCount,
          dumpCount, lastDump, finalCount, finishEvals, covWritten, cpuLine,
          buffer, written, returned, crashed, query>>

mainVars == <<heartbeatArg, pc, exitCode, top, tfp, reset, clock,
              heartbeat, main_time, gotFinish, evalCount, evalTime, evalClock,
              prevEvalClock, evalReset, evalHb, hbLine, hbCount, deassertCount,
              dumpCount, lastDump, finalCount, finishEvals, covWritten, cpuLine>>

hookVars == <<buffer, written, returned, crashed, query>>

-----------------------------------------------------------------------------
(* Bounds of the model *)

\* The drive loop is explored up to this simulated time.
MaxTime == 1545

\* Short plusarg values have 0..MaxShortLen characters.
MaxShortLen == 2

\* Long plusarg values reach BufferSize + MaxOverLen characters.
MaxOverLen == 1

(* Program constants *)

ResetCycles == 770

HeartbeatPeriod == 1000

BufferSize == 1024

SeedExitCode == 44

ResetTime == ResetCycles * 2

NoExit == -1

Absent == <<"absent">>

SeedArg == "random_seed="

VcdArg == "vcdfile="

PlusargNames == {SeedArg, VcdArg}

-----------------------------------------------------------------------------
(* Strings are sequences of characters. *)

Str(n) == [i \in 1..n |-> IF i % 3 = 1 THEN "1" ELSE IF i % 3 = 2 THEN "2" ELSE "3"]

ShortValues == {Str(n) : n \in 0..MaxShortLen}

LongValues == {Str(n) : n \in (BufferSize - 2)..(BufferSize + MaxOverLen)}

\* VL_VALUEPLUSARGS_INI / VL_VALUEPLUSARGS_INN: true iff the plusarg is given
PlusargFound(name) == cmdline[name] # Absent

\* the value VL_VALUEPLUSARGS_INN stores; the output string is left as it
\* was (empty) when the plusarg is not given
PlusargString(name) == IF PlusargFound(name) THEN cmdline[name] ELSE <<>>

-----------------------------------------------------------------------------
MainStart ==
    /\ pc = "seed"
    /\ exitCode = NoExit
    /\ top = "none"
    /\ tfp = "null"
    /\ reset = 0
    /\ clock = 0
    /\ heartbeat = 0
    /\ main_time = 0
    /\ gotFinish = FALSE
    /\ evalCount = 0
    /\ evalTime = -1
    /\ evalClock = -1
    /\ prevEvalClock = -1
    /\ evalReset = -1
    /\ evalHb = FALSE
    /\ hbLine = FALSE
    /\ hbCount = 0
    /\ deassertCount = 0
    /\ dumpCount = 0
    /\ lastDump = -1
    /\ finalCount = 0
    /\ finishEvals = -1
    /\ covWritten = FALSE
    /\ cpuLine = "none"

HookStart ==
    /\ buffer = <<>>
    /\ written = 0
    /\ returned = <<>>
    /\ crashed = FALSE
    /\ query = "none"

\* a run of main: each plusarg is given (with a short value) or not
Init ==
    /\ cmdline \in [PlusargNames -> {Str(MaxShortLen), Absent}]
    /\ heartbeatArg \in BOOLEAN
    /\ MainStart
    /\ HookStart

-----------------------------------------------------------------------------
(* main *)

SeedGivenAlways == TRUE

\* line 47: VL_VALUEPLUSARGS_INI(32, "random_seed=%d", randomSeed)
SeedGiven == PlusargFound(SeedArg)

\* lines 46-53: the random seed is mandatory
ParseSeed ==
    /\ pc = "seed"
    /\ IF SeedGiven
       THEN pc' = "construct" /\ exitCode' = exitCode
       ELSE pc' = "exited" /\ exitCode' = SeedExitCode
    /\ UNCHANGED <<cmdline, heartbeatArg, top, tfp, reset, clock, heartbeat,
                   main_time, gotFinish, evalCount, evalTime, evalClock,
                   prevEvalClock, evalReset, evalHb, hbLine, hbCount,
                   deassertCount, dumpCount, lastDump, finalCount, finishEvals,
                   covWritten, cpuLine>>
    /\ UNCHANGED hookVars

\* line 55: new VTestDriver("top"); the ports hold whatever the generated
\* constructor's reset leaves in them
Construct ==
    /\ pc = "construct"
    /\ top' = "live"
    /\ reset' \in {0, 1}
    /\ clock' \in {0, 1}
    /\ pc' = "trace"
    /\ UNCHANGED <<cmdline, heartbeatArg, exitCode, tfp, heartbeat,
                   main_time, gotFinish, evalCount, evalTime, evalClock,
                   prevEvalClock, evalReset, evalHb, hbLine, hbCount,
                   deassertCount, dumpCount, lastDump, finalCount, finishEvals,
                   covWritten, cpuLine>>
    /\ UNCHANGED hookVars

\* lines 57-67: with VM_TRACE == 1 and +vcdfile=<path>, attach and open the
\* trace; a build without VM_TRACE has no tfp at all, which is tfp = "null"
TraceSetup ==
    /\ pc = "trace"
    /\ \E VM_TRACE \in BOOLEAN :
         tfp' = IF VM_TRACE /\ PlusargFound(VcdArg) THEN "open" ELSE "null"
    /\ pc' = "inputs"
    /\ UNCHANGED <<cmdline, heartbeatArg, exitCode, top, reset, clock, heartbeat,
                   main_time, gotFinish, evalCount, evalTime, evalClock,
                   prevEvalClock, evalReset, evalHb, hbLine, hbCount,
                   deassertCount, dumpCount, lastDump, finalCount, finishEvals,
                   covWritten, cpuLine>>
    /\ UNCHANGED hookVars

\* lines 69-72
SetInputs ==
    /\ pc = "inputs"
    /\ reset' = 1
    /\ clock' = 1
    /\ heartbeat' = IF heartbeatArg THEN 1 ELSE 0
    /\ pc' = "loop"
    /\ UNCHANGED <<cmdline, heartbeatArg, exitCode, top, tfp,
                   main_time, gotFinish, evalCount, evalTime, evalClock,
                   prevEvalClock, evalReset, evalHb, hbLine, hbCount,
                   deassertCount, dumpCount, lastDump, finalCount, finishEvals,
                   covWritten, cpuLine>>
    /\ UNCHANGED hookVars

LoopContinuesTimeout(finish, t) == ~finish /\ t < HeartbeatPeriod

\* line 74: while (!Verilated::gotFinish())
LoopContinues(finish, t) == ~finish

LoopTest ==
    /\ pc = "loop"
    /\ IF LoopContinues(gotFinish, main_time)
       THEN main_time < MaxTime /\ pc' = "drive"
       ELSE pc' = "final"
    /\ UNCHANGED <<cmdline, heartbeatArg, exitCode, top, tfp, reset, clock,
                   heartbeat, main_time, gotFinish, evalCount, evalTime,
                   evalClock, prevEvalClock, evalReset, evalHb, hbLine, hbCount,
                   deassertCount, dumpCount, lastDump, finalCount, finishEvals,
                   covWritten, cpuLine>>
    /\ UNCHANGED hookVars

DeassertDueLate(r, t) == r = 1 /\ t > ResetTime

\* line 75
DeassertDue(r, t) == r = 1 /\ t >= ResetTime

ClockAtInverted(t) == IF t % 2 = 0 THEN 0 ELSE 1

\* lines 81, 82, 87
ClockAt(t) == IF t % 2 = 0 THEN 1 ELSE 0

HeartbeatDueAlways(hb, t) == t % HeartbeatPeriod = 0

\* line 83
HeartbeatDue(hb, t) == hb # 0 /\ t % HeartbeatPeriod = 0

\* lines 75-88: deassert reset, set the clock phase, print the heartbeat
Drive ==
    /\ pc = "drive"
    /\ IF DeassertDue(reset, main_time)
       THEN reset' = 0 /\ deassertCount' = deassertCount + 1
       ELSE reset' = reset /\ deassertCount' = deassertCount
    /\ clock' = ClockAt(main_time)
    /\ hbLine' = (main_time % 2 = 0 /\ HeartbeatDue(heartbeat, main_time))
    /\ hbCount' = IF hbLine' THEN hbCount + 1 ELSE hbCount
    /\ pc' = "eval"
    /\ UNCHANGED <<cmdline, heartbeatArg, exitCode, top, tfp, heartbeat,
                   main_time, gotFinish, evalCount, evalTime, evalClock,
                   prevEvalClock, evalReset, evalHb, dumpCount, lastDump,
                   finalCount, finishEvals, covWritten, cpuLine>>
    /\ UNCHANGED hookVars

\* lines 90-91: top->eval(); the model may call $finish during it
Eval ==
    /\ pc = "eval"
    /\ evalCount' = evalCount + 1
    /\ evalTime' = main_time
    /\ evalClock' = clock
    /\ prevEvalClock' = evalClock
    /\ evalReset' = reset
    /\ evalHb' = hbLine
    /\ \E finish \in BOOLEAN :
         /\ gotFinish' = finish
         /\ finishEvals' = IF finish THEN evalCount + 1 ELSE finishEvals
    /\ pc' = "tick"
    /\ UNCHANGED <<cmdline, heartbeatArg, exitCode, top, tfp, reset, clock,
                   heartbeat, main_time, hbLine, hbCount, deassertCount,
                   dumpCount, lastDump, finalCount, covWritten, cpuLine>>
    /\ UNCHANGED hookVars

NextTimeSkip(t) == t + 2

\* line 92: main_time++
NextTime(t) == t + 1

Tick ==
    /\ pc = "tick"
    /\ main_time' = NextTime(main_time)
    /\ pc' = "dump"
    /\ UNCHANGED <<cmdline, heartbeatArg, exitCode, top, tfp, reset, clock,
                   heartbeat, gotFinish, evalCount, evalTime, evalClock,
                   prevEvalClock, evalReset, evalHb, hbLine, hbCount,
                   deassertCount, dumpCount, lastDump, finalCount, finishEvals,
                   covWritten, cpuLine>>
    /\ UNCHANGED hookVars

\* lines 93-97: if (tfp) tfp->dump(main_time)
Dump ==
    /\ pc = "dump"
    /\ IF tfp # "null"
       THEN dumpCount' = dumpCount + 1 /\ lastDump' = main_time
       ELSE dumpCount' = dumpCount /\ lastDump' = lastDump
    /\ pc' = "loop"
    /\ UNCHANGED <<cmdline, heartbeatArg, exitCode, top, tfp, reset, clock,
                   heartbeat, main_time, gotFinish, evalCount, evalTime,
                   evalClock, prevEvalClock, evalReset, evalHb, hbLine, hbCount,
                   deassertCount, finalCount, finishEvals, covWritten, cpuLine>>
    /\ UNCHANGED hookVars

\* lines 100-101: top->final()
Final ==
    /\ pc = "final"
    /\ top' = "finalized"
    /\ finalCount' = finalCount + 1
    /\ pc' = "close"
    /\ UNCHANGED <<cmdline, heartbeatArg, exitCode, tfp, reset, clock,
                   heartbeat, main_time, gotFinish, evalCount, evalTime,
                   evalClock, prevEvalClock, evalReset, evalHb, hbLine, hbCount,
                   deassertCount, dumpCount, lastDump, finishEvals, covWritten,
                   cpuLine>>
    /\ UNCHANGED hookVars

TraceLeftOpen(t) == t

\* lines 104-106
TraceAfterClose(t) == IF t # "null" THEN "closed" ELSE t

\* lines 103-107: if (tfp) tfp->close()
CloseTrace ==
    /\ pc = "close"
    /\ tfp' = TraceAfterClose(tfp)
    /\ pc' = "coverage"
    /\ UNCHANGED <<cmdline, heartbeatArg, exitCode, top, reset, clock,
                   heartbeat, main_time, gotFinish, evalCount, evalTime,
                   evalClock, prevEvalClock, evalReset, evalHb, hbLine, hbCount,
                   deassertCount, dumpCount, lastDump, finalCount, finishEvals,
                   covWritten, cpuLine>>
    /\ UNCHANGED hookVars

\* lines 109-111: VerilatedCov::write in a VM_COVERAGE build
WriteCoverage ==
    /\ pc = "coverage"
    /\ \E VM_COVERAGE \in BOOLEAN : covWritten' = VM_COVERAGE
    /\ pc' = "delete"
    /\ UNCHANGED <<cmdline, heartbeatArg, exitCode, top, tfp, reset, clock,
                   heartbeat, main_time, gotFinish, evalCount, evalTime,
                   evalClock, prevEvalClock, evalReset, evalHb, hbLine, hbCount,
                   deassertCount, dumpCount, lastDump, finalCount, finishEvals,
                   cpuLine>>
    /\ UNCHANGED hookVars

\* line 113: delete top
DeleteTop ==
    /\ pc = "delete"
    /\ top' = "destroyed"
    /\ pc' = "cputime"
    /\ UNCHANGED <<cmdline, heartbeatArg, exitCode, tfp, reset, clock,
                   heartbeat, main_time, gotFinish, evalCount, evalTime,
                   evalClock, prevEvalClock, evalReset, evalHb, hbLine, hbCount,
                   deassertCount, dumpCount, lastDump, finalCount, finishEvals,
                   covWritten, cpuLine>>
    /\ UNCHANGED hookVars

\* lines 115-140: the CPU-time line; when /proc/<pid>/stat cannot be read
\* the extractions fail and utime, stime are used uninitialized
ReportCpuTime ==
    /\ pc = "cputime"
    /\ \E statReadable \in BOOLEAN :
         cpuLine' = IF statReadable THEN "valid" ELSE "garbage"
    /\ pc' = "exit"
    /\ UNCHANGED <<cmdline, heartbeatArg, exitCode, top, tfp, reset, clock,
                   heartbeat, main_time, gotFinish, evalCount, evalTime,
                   evalClock, prevEvalClock, evalReset, evalHb, hbLine, hbCount,
                   deassertCount, dumpCount, lastDump, finalCount, finishEvals,
                   covWritten>>
    /\ UNCHANGED hookVars

ExitStatusOnFailure(cpu) == IF cpu = "garbage" THEN 1 ELSE 0

\* line 142: the status does not depend on anything the run did
ExitStatus(cpu) == 0

\* line 142: exit(0)
ExitMain ==
    /\ pc = "exit"
    /\ exitCode' = ExitStatus(cpuLine)
    /\ pc' = "exited"
    /\ UNCHANGED <<cmdline, heartbeatArg, top, tfp, reset, clock,
                   heartbeat, main_time, gotFinish, evalCount, evalTime,
                   evalClock, prevEvalClock, evalReset, evalHb, hbLine, hbCount,
                   deassertCount, dumpCount, lastDump, finalCount, finishEvals,
                   covWritten, cpuLine>>
    /\ UNCHANGED hookVars

Next ==
    \/ ParseSeed
    \/ Construct
    \/ TraceSetup
    \/ SetInputs
    \/ LoopTest
    \/ Drive
    \/ Eval
    \/ Tick
    \/ Dump
    \/ Final
    \/ CloseTrace
    \/ WriteCoverage
    \/ DeleteTop
    \/ ReportCpuTime
    \/ ExitMain

Spec == Init /\ [][Next]_vars

\* main is sequential code: it takes its next step whenever it has one
FairSpec == Spec /\ WF_vars(Next)

-----------------------------------------------------------------------------
(* plusarg_value *)

\* a call of the hook: each plusarg is absent or has a short or a long value
InitPlusarg ==
    /\ cmdline \in [PlusargNames -> ShortValues \cup LongValues \cup {Absent}]
    /\ heartbeatArg = FALSE
    /\ MainStart
    /\ HookStart

\* lines 33-34: strcpy(buffer, plusargvalue.c_str()) copies the value and its
\* NUL whatever the size of buffer
CopyLength(value) == Len(value) + 1

\* lines 25-37.  A copy longer than the buffer writes past its end, which is
\* undefined: either the write faults, or it lands in the memory that
\* follows the buffer and the caller reads the whole value back through it.
PlusargValue ==
    /\ ~crashed
    /\ \E name \in PlusargNames :
         LET value == PlusargString(name)
             n == CopyLength(value)
         IN /\ query' = name
            /\ written' = n
            /\ IF n <= BufferSize
               THEN /\ buffer' = value
                    /\ returned' = value
                    /\ crashed' = FALSE
               ELSE /\ buffer' = SubSeq(value, 1, BufferSize)
                    /\ \/ crashed' = TRUE /\ returned' = <<>>
                       \/ crashed' = FALSE /\ returned' = value
    /\ UNCHANGED cmdline
    /\ UNCHANGED mainVars

NextPlusarg == PlusargValue

SpecPlusarg == InitPlusarg /\ [][NextPlusarg]_vars

-----------------------------------------------------------------------------
(* Properties *)

\* positions of main after the drive loop
PastLoop == {"final", "close", "coverage", "delete", "cputime", "exit"}

\* main left the drive loop (and did not stop at the seed check)
LeftLoop == pc \in PastLoop \/ (pc = "exited" /\ exitCode # SeedExitCode)

\* C1: without +random_seed=<int>, main exits with status 44 before the model
\* is constructed: no model, no eval, no final, no trace, no CPU-time line.
\* With the argument given, status 44 is never the exit status.
C1_SeedMandatory ==
    /\ (~PlusargFound(SeedArg) /\ pc # "seed") => (pc = "exited" /\ exitCode = 44)
    /\ ~PlusargFound(SeedArg) =>
          /\ top = "none"
          /\ tfp = "null"
          /\ evalCount = 0
          /\ finalCount = 0
          /\ dumpCount = 0
          /\ cpuLine = "none"
    /\ PlusargFound(SeedArg) => exitCode # 44

C1_Witness == ~PlusargFound(SeedArg) /\ pc = "exited" /\ exitCode = 44 /\ top = "none"

\* C2: every eval at simulated time t sees clock = 1 for even t and clock = 0
\* for odd t; consecutive evals see different clocks; the first eval is at
\* t = 0 with clock = 1.
C2_ClockToggles ==
    /\ evalCount > 0 => evalClock = (IF evalTime % 2 = 0 THEN 1 ELSE 0)
    /\ evalCount > 1 => evalClock # prevEvalClock
    /\ evalCount = 1 => (evalTime = 0 /\ evalClock = 1)

C2_Witness == evalCount > 2 /\ evalTime % 2 = 1 /\ evalClock = 0 /\ prevEvalClock = 1

\* C3: every eval at t < 1540 sees reset = 1 and every eval at t >= 1540 sees
\* reset = 0; reset is deasserted at most once and stays deasserted; it is
\* not deasserted when the model finishes before time 1540.
C3_ResetWindow ==
    /\ evalCount > 0 => evalReset = (IF evalTime < 1540 THEN 1 ELSE 0)
    /\ deassertCount <= 1
    /\ deassertCount = 1 => (reset = 0 /\ main_time >= 1540)
    /\ (deassertCount = 0 /\ pc \notin {"seed", "construct", "trace", "inputs"}
          /\ top # "none") => reset = 1
    /\ (gotFinish /\ finishEvals <= 1540) => deassertCount = 0

C3_Witness ==
    /\ deassertCount = 1
    /\ evalCount > 0
    /\ evalTime > 1540
    /\ evalReset = 0
    /\ reset = 0

C4_Inv ==
    /\ gotFinish => (evalCount = finishEvals /\ pc \notin {"drive", "eval"})
    /\ pc \in {"drive", "eval"} => ~gotFinish
    /\ finalCount <= 1
    /\ finalCount = 1 <=> (LeftLoop /\ pc # "final")
    /\ LeftLoop => (gotFinish /\ main_time = evalCount)
    /\ main_time = (IF pc = "tick" THEN evalCount - 1 ELSE evalCount)

C4_Step ==
    /\ main_time' \in {main_time, main_time + 1}
    /\ main_time' = main_time + 1 <=> pc = "tick"
    /\ evalCount' # evalCount => (~gotFinish /\ finalCount' = 0)
    /\ finalCount' # finalCount => evalCount' = evalCount

\* C4: no eval follows the eval in which the model signals finish; final is
\* called exactly once, after the last eval, with main_time equal to the
\* number of evals; main_time starts at 0 and grows by exactly 1 per eval.
C4_LoopUntilFinish == []C4_Inv /\ [][C4_Step]_vars

C4_Witness ==
    /\ finalCount = 1
    /\ gotFinish
    /\ evalCount > 2
    /\ main_time = evalCount
    /\ pc = "exited"

\* C5 (as claimed): the sample taken after the eval at time t is dumped
\* before main_time is incremented and carries timestamp t; the first sample
\* carries timestamp 0.
C5_DumpAtEvalTime ==
    /\ (dumpCount > 0 /\ pc = "loop") => lastDump = evalTime
    /\ dumpCount = 1 => lastDump = 0

\* C6: a run that constructed the model and left the loop exits with
\* status 0, whether or not the process statistics could be read.
C6_ExitZero ==
    /\ (pc = "exited" /\ top # "none") => exitCode = 0
    /\ (pc = "exited" /\ exitCode # SeedExitCode) => exitCode = 0
    /\ pc # "exited" => exitCode = NoExit

C6_Witness == pc = "exited" /\ exitCode = 0 /\ cpuLine = "garbage" /\ top = "destroyed"

\* C7: at every exit a created model has been finalized and then destroyed
\* and an opened trace has been closed, after final and before the model is
\* destroyed; a trace exists only in runs given +vcdfile=.
C7_Released ==
    /\ pc = "exited" => (top \in {"none", "destroyed"} /\ tfp \in {"null", "closed"})
    /\ top = "destroyed" => (finalCount = 1 /\ tfp # "open")
    /\ top = "finalized" => finalCount = 1
    /\ tfp = "closed" => (finalCount = 1 /\ top \in {"finalized", "destroyed"})
    /\ (tfp # "null" \/ dumpCount > 0) => PlusargFound(VcdArg)

C7_Witness == pc = "exited" /\ top = "destroyed" /\ tfp = "closed" /\ dumpCount > 0

\* C8: once the seed check has passed the loop is left only when the model
\* has signalled finish, and when it has, main goes on to final and exit.
C8_Termination ==
    /\ [](LeftLoop => gotFinish)
    /\ gotFinish ~> (pc = "exited" /\ finalCount = 1 /\ exitCode = 0)

C8_Witness == gotFinish /\ pc = "exited" /\ finalCount = 1 /\ evalCount > 1

\* number of drive iterations completed (the heartbeat check included)
DrivesDone == IF pc = "eval" THEN evalCount + 1 ELSE evalCount

\* C9: with +heartbeat a heartbeat line precedes the eval at t exactly when
\* t % 1000 = 0; without it none is printed; the clock, reset and eval
\* sequence is a function of the time alone.
C9_Heartbeat ==
    /\ evalCount > 0 => (evalHb <=> (heartbeatArg /\ evalTime % 1000 = 0))
    /\ hbCount = (IF heartbeatArg /\ PlusargFound(SeedArg)
                  THEN (DrivesDone + 999) \div 1000 ELSE 0)
    /\ evalCount > 0 =>
          /\ evalTime = evalCount - 1
          /\ evalClock = 1 - (evalTime % 2)
          /\ evalReset = (IF evalTime < 1540 THEN 1 ELSE 0)

C9_Witness ==
    /\ heartbeatArg
    /\ evalCount > 0
    /\ evalTime = 1000
    /\ evalHb
    /\ hbCount = 2

\* C10 (as claimed): the copy, NUL included, fits the 1024-byte buffer and
\* the returned string is the supplied value (empty when absent).
C10_WithinBuffer ==
    /\ written <= 1024
    /\ ~crashed
    /\ query # "none" => returned = PlusargString(query)

=============================================================================
